---- MODULE Spec2Model ----
(***************************************************************************)
(* Model of collection2.js: schema-driven validation wrapped around the    *)
(* insert / update / upsert entry points of Meteor.Collection.             *)
(*                                                                         *)
(* Documents, modifiers' operator objects and option objects are functions *)
(* from key names to values; an absent key is JavaScript's undefined.      *)
(* The schema attached to the collection declares                          *)
(*    name   : required string                                             *)
(*    code   : optional number, unique, index = codeIndex                  *)
(*    stamp  : optional string with an autoValue                           *)
(*    _id    : declared iff allowsId                                       *)
(* The store keeps the fields the queries of this file read (_id and      *)
(* code).  Strings that the code parses (error messages) are sequences   *)
(* of one-character strings.  Every ctx.validate resets the validation    *)
(* context, so its invalid keys are kept with the outcome of the call      *)
(* (call.dv.keys after validation, call.keys after the callback).          *)
(***************************************************************************)
EXTENDS Integers, Sequences, FiniteSets, TLC

VARIABLES isServer, codeIndex, allowsId, store, c2selector, call, rule, inflight

vars == <<isServer, codeIndex, allowsId, store, c2selector, call, rule, inflight>>

(***************************** bounds **************************************)
MaxDocs == 2

IdPool == <<"a", "b", "c", "d">>
Ids == {IdPool[i] : i \in 1..MaxDocs}
Codes == {1, 2}

(************************ objects as functions *****************************)
Empty == [k \in {} |-> 0]
Has(d, k) == k \in DOMAIN d
Del(d, k) == [g \in DOMAIN d \ {k} |-> d[g]]
Put(d, k, v) == [g \in DOMAIN d \cup {k} |-> IF g = k THEN v ELSE d[g]]
Restrict(d, ks) == [g \in DOMAIN d \cap ks |-> d[g]]
\* _.extend(a, b): b's entries win
Extend(a, b) == [g \in DOMAIN a \cup DOMAIN b |-> IF g \in DOMAIN b THEN b[g] ELSE a[g]]

\* JavaScript truthiness of the values an _id takes here (strings)
Truthy(v) == v # ""

\* JavaScript values of a field, as the rule of ss.validator sees them
Undef == [t |-> "undefined"]
Null == [t |-> "null"]
Num(n) == [t |-> "num", n |-> n]
JsFalse == [t |-> "bool", b |-> FALSE]
EmptyStr == [t |-> "str", s |-> ""]

(***************************** selectors ***********************************)
NullSel == [kind |-> "null"]
StrSel(id) == [kind |-> "string", id |-> id]
ObjSel(c) == [kind |-> "object", cond |-> c]
Eq(v) == [eq |-> v]
Ne(v) == [ne |-> v]

(******************************* schema ************************************)
SchemaKeys == <<"name", "code", "stamp">>

\* [1, -1, true].indexOf(def.index) !== -1
IndexUsable(ix) == ix \in {"1", "-1", "true"}

Definition(key) ==
  [unique |-> key = "code",
   index |-> IF key = "code" THEN codeIndex ELSE "absent",
   optional |-> key # "name",
   denyInsert |-> FALSE,
   denyUpdate |-> FALSE]

AllowsKey(key) == key \in {"name", "code", "stamp"} \/ (key = "_id" /\ allowsId)

(************************ storage queries **********************************)
Cond(d, k, c) ==
  IF "eq" \in DOMAIN c THEN Has(d, k) /\ d[k] = c.eq
  ELSE ~Has(d, k) \/ d[k] # c.ne

Matches(d, cond) == \A k \in DOMAIN cond : Cond(d, k, cond[k])

Find(st, cond) == {d \in st : Matches(d, cond)}
Count(st, cond) == Cardinality(Find(st, cond))

(********************** uniqueness / policy rule ***************************)
\* self._skipClientUniqueCheck is never set by this file
SkipClientUniqueCheck == FALSE

\* variant: the branches of the conditional exchanged
FindOneRuleInverted(key, val, st) ==
  [res |-> IF Find(st, key :> Eq(val)) # {} THEN "true" ELSE "notUnique",
   queries |-> <<key :> Eq(val)>>, deferred |-> FALSE]

\* return self.findOne(test) ? "notUnique" : true
FindOneRule(key, val, st) ==
  [res |-> IF Find(st, key :> Eq(val)) # {} THEN "notUnique" ELSE "true",
   queries |-> <<key :> Eq(val)>>, deferred |-> FALSE]

\* variant: the policy is applied to $set only
DenyUpdateOnlySet(def, val, op) == def.denyUpdate /\ op = "$set" /\ val # Undef

\* def.denyUpdate && op && (op !== "$set" || (op === "$set" && val !== void 0))
DenyUpdateApplies(def, val, op) ==
  def.denyUpdate /\ op # "" /\ (op # "$set" \/ (op = "$set" /\ val # Undef))

\* variant: the value is tested for truthiness
DenyInsertTruthy(def, val, op) ==
  def.denyInsert /\ val \notin {Undef, Null, JsFalse, Num(0), EmptyStr} /\ op = ""

\* def.denyInsert && val !== void 0 && !op
DenyInsertApplies(def, val, op) == def.denyInsert /\ val # Undef /\ op = ""

\* The stored values of the unique field are numbers: a lookup for a value
\* of another type matches what a lookup for a number no document holds
\* matches.
StoredValue(val) == IF val.t = "num" THEN val.n ELSE 0 - 1

\* The function registered with ss.validator, for a field with definition
\* def.  op = "" is "no operator".  The result carries the error kind
\* ("true" for no error), the storage queries the rule issued, in order,
\* and whether the rule left the check to the index of the storage engine.
Rule(def, key, val, op, st, sel) ==
  IF DenyInsertApplies(def, val, op)
    THEN [res |-> "insertNotAllowed", queries |-> << >>, deferred |-> FALSE]
  ELSE IF DenyUpdateApplies(def, val, op)
    THEN [res |-> "updateNotAllowed", queries |-> << >>, deferred |-> FALSE]
  ELSE IF def.unique /\ ~SkipClientUniqueCheck
    THEN IF val = Undef \/ val = Null
           THEN [res |-> "true", queries |-> << >>, deferred |-> FALSE]
         ELSE IF isServer /\ IndexUsable(def.index)
           THEN [res |-> "true", queries |-> << >>, deferred |-> TRUE]
         ELSE IF op # "" /\ op # "$inc"
           THEN IF sel.kind = "null"
                  THEN [res |-> "true", queries |-> << >>, deferred |-> FALSE]
                ELSE LET s == IF sel.kind = "string" THEN "_id" :> Eq(sel.id) ELSE sel.cond
                         test == key :> Eq(StoredValue(val))
                         willUse == Put(s, key, Ne(StoredValue(val)))
                         totalUsing == Count(st, test)
                         totalWillUse == Count(st, willUse)
                     IN [res |-> IF totalUsing + totalWillUse > 1 THEN "notUnique" ELSE "true",
                         queries |-> <<test, willUse>>, deferred |-> FALSE]
         ELSE FindOneRule(key, StoredValue(val), st)
  ELSE [res |-> "true", queries |-> << >>, deferred |-> FALSE]

\* the rule as ctx.validate calls it: this.definition is the definition of
\* the key; defined = FALSE is a key without a value
Validator(key, defined, val, op, st, sel) ==
  Rule(Definition(key), key, IF defined THEN Num(val) ELSE Undef, op, st, sel)

(************************* schema.clean ************************************)
ModOps == <<"$set", "$inc", "$unset">>

FilterObj(o) == [k \in {g \in DOMAIN o : AllowsKey(g)} |-> o[k]]

\* schema.clean(doc, {filter, getAutoValues, isModifier}) acting in place on
\* the object it is given; the result is the object's content afterwards.
\* The payloads used here are correctly typed, so autoConvert changes nothing.
Clean(d, filter, getAutoValues, isModifier) ==
  IF ~isModifier
    THEN LET d1 == IF filter THEN FilterObj(d) ELSE d
         IN IF getAutoValues THEN Put(d1, "stamp", "auto") ELSE d1
    ELSE LET d1 == IF filter THEN [o \in DOMAIN d |-> FilterObj(d[o])] ELSE d
             set == IF Has(d1, "$set") THEN d1["$set"] ELSE Empty
         IN IF getAutoValues THEN Put(d1, "$set", Put(set, "stamp", "auto")) ELSE d1

(************************ ctx.validate *************************************)
NoCheck == [keys |-> << >>, queries |-> << >>]
Both(a, b) == [keys |-> a.keys \o b.keys, queries |-> a.queries \o b.queries]

FromRule(key, r) ==
  [keys |-> IF r.res = "true" THEN << >> ELSE <<[name |-> key, type |-> r.res]>>,
   queries |-> r.queries]

Required(key) == [keys |-> <<[name |-> key, type |-> "required"]>>, queries |-> << >>]

\* one schema key of a plain document
CheckDocKey(d, key, st, sel) ==
  IF ~Has(d, key) /\ ~Definition(key).optional
    THEN Required(key)
    ELSE FromRule(key, Validator(key, Has(d, key), IF Has(d, key) THEN d[key] ELSE 0, "", st, sel))

\* one (operator, key) pair of a modifier
CheckModKey(m, op, key, isUpsert, st, sel) ==
  IF ~Has(m, op) \/ ~Has(m[op], key)
    THEN IF op = "$set" /\ isUpsert /\ ~Definition(key).optional THEN Required(key) ELSE NoCheck
  ELSE IF op = "$unset" /\ ~Definition(key).optional
    THEN Required(key)
  ELSE FromRule(key, Validator(key, TRUE, m[op][key], op, st, sel))

\* a key the schema does not allow
UnknownKeys(o) ==
  IF \E k \in DOMAIN o : ~AllowsKey(k)
    THEN [keys |-> <<[name |-> CHOOSE k \in DOMAIN o : ~AllowsKey(k), type |-> "keyNotInSchema"]>>,
          queries |-> << >>]
    ELSE NoCheck

RECURSIVE DocChecks(_, _, _, _)
DocChecks(d, i, st, sel) ==
  IF i = 0 THEN NoCheck
  ELSE Both(DocChecks(d, i - 1, st, sel), CheckDocKey(d, SchemaKeys[i], st, sel))

RECURSIVE ModChecks(_, _, _, _, _, _)
ModChecks(m, o, i, isUpsert, st, sel) ==
  IF o = 0 THEN NoCheck
  ELSE IF i = 0
    THEN Both(ModChecks(m, o - 1, Len(SchemaKeys), isUpsert, st, sel),
              IF Has(m, ModOps[o]) THEN UnknownKeys(m[ModOps[o]]) ELSE NoCheck)
  ELSE Both(ModChecks(m, o, i - 1, isUpsert, st, sel),
            CheckModKey(m, ModOps[o], SchemaKeys[i], isUpsert, st, sel))

\* ctx.validate(docToValidate, {modifier, upsert}): the invalid keys it
\* records (empty iff valid) and the storage queries the custom rule made.
Validate(d, isModifier, isUpsert, st, sel) ==
  IF ~isModifier
    THEN Both(DocChecks(d, Len(SchemaKeys), st, sel), UnknownKeys(d))
    ELSE ModChecks(d, Len(ModOps), Len(SchemaKeys), isUpsert, st, sel)

(*************************** call arguments ********************************)
ObjArg(o) == [t |-> "obj", v |-> o]
SelArg(x) == [t |-> "sel", s |-> x]
OptArg(o) == [t |-> "opts", o |-> o]
FnArg(f) == [t |-> "fn", f |-> f]
Arg(args, i) == IF i <= Len(args) THEN args[i] ELSE Undef
IsFn(a) == a.t \in {"fn", "wrapped"}
IsUndef(a) == a.t = "undefined"

\* wrapCallbackForNotUnique(col, doc, vCtx, cb): the function it returns
WrapCallbackForNotUnique(cb) == [t |-> "wrapped", f |-> cb.f]

(***************************** doValidate **********************************)
\* The result of doValidate describes everything the call did:
\*   returned  - an argument list was returned (ret)
\*   thrown    - the validation error was raised
\*   cb        - the callback invoked with (error, false): "", "cb", "default", "guard"
\*   doc       - the caller's document / modifier object afterwards
\*   cleaned   - the objects handed to schema.clean, as handed
\*   validated - the objects handed to ctx.validate, as handed
\*   keys      - the invalid keys ctx.validate recorded (none when skipped)
\*   selDuring - self._c2._selector while validating
\*   selector  - self._c2._selector after the call
\* The stages below are the consecutive parts of the function body; each
\* receives the locals computed so far.

\* the real insert doesn't take options
InsertArgs(args) ==
  IF IsFn(Arg(args, 2)) THEN <<args[1], args[2]>>
  ELSE IF IsFn(Arg(args, 3)) THEN <<args[1], args[3]>>
  ELSE <<args[1]>>

RawOptions(type, args) == IF type = "insert" THEN Arg(args, 2) ELSE Arg(args, 3)
RawCallback(type, args) == IF type = "insert" THEN Arg(args, 3) ELSE Arg(args, 4)

\* variant: a function in the options position is not taken as the callback
CallbackOfNoShift(type, args) == RawCallback(type, args)

\* callback, after "support missing options arg"
CallbackOf(type, args) ==
  IF IsUndef(RawCallback(type, args)) /\ IsFn(RawOptions(type, args))
    THEN RawOptions(type, args) ELSE RawCallback(type, args)

\* options = options || {}
OptionsOf(type, args) ==
  IF RawOptions(type, args).t = "opts" THEN RawOptions(type, args).o ELSE Empty

\* if a callback, set invalidKey when we get a mongo unique error
WrapLast(args) ==
  IF IsFn(args[Len(args)])
    THEN [args EXCEPT ![Len(args)] = WrapCallbackForNotUnique(args[Len(args)])]
    ELSE args

\* validation passed: add the ID back, update the args, wrap the callback
DvValid(type, args1, sel, cleaned, snap2, v, doc4) ==
  [skipped |-> FALSE, returned |-> TRUE,
   ret |-> WrapLast([args1 EXCEPT ![IF type = "insert" THEN 1 ELSE 2] = ObjArg(doc4)]),
   thrown |-> FALSE, cb |-> "", doc |-> doc4, cleaned |-> cleaned, validated |-> <<snap2>>,
   queries |-> v.queries, keys |-> v.keys, selDuring |-> sel, selector |-> NullSel]

\* validation failed: callback(error, false), or throw error
DvInvalid(sel, callback, cleaned, snap2, v, doc3) ==
  [skipped |-> FALSE, returned |-> FALSE, ret |-> << >>,
   thrown |-> IsUndef(callback), cb |-> IF IsUndef(callback) THEN "" ELSE callback.f,
   doc |-> doc3, cleaned |-> cleaned, validated |-> <<snap2>>,
   queries |-> v.queries, keys |-> v.keys, selDuring |-> sel, selector |-> NullSel]

\* variant: the result of ctx.validate is not consulted
DvValidatedAnyway(type, args1, sel, callback, detach, id, cleaned, snap2, doc3, v) ==
  DvValid(type, args1, sel, cleaned, snap2, v, IF detach THEN Put(doc3, "_id", id) ELSE doc3)

\* ctx.validate has run and the cached selector is cleared
DvValidated(type, args1, sel, callback, detach, id, cleaned, snap2, doc3, v) ==
  IF v.keys = << >>
    THEN DvValid(type, args1, sel, cleaned, snap2, v, IF detach THEN Put(doc3, "_id", id) ELSE doc3)
    ELSE DvInvalid(sel, callback, cleaned, snap2, v, doc3)

\* On the client doClean(docToValidate, true, false, false) has run on the
\* snapshot.  _.clone(doc) is shallow: unless the upsert merge replaced it,
\* the snapshot's $set is the very object doc.$set.
DvClientCleaned(type, args1, sel, isUpsert, callback, detach, id, doc1, doc2, merge, snap1, snap2) ==
  DvValidated(type, args1, sel, callback, detach, id,
              IF isServer THEN <<doc1>> ELSE <<doc1, snap1>>,
              snap2,
              IF ~isServer /\ type # "insert" /\ Has(doc2, "$set") /\ ~merge
                THEN Put(doc2, "$set", snap2["$set"]) ELSE doc2,
              Validate(snap2, type # "insert", isUpsert, store, sel))

\* docToValidate is built: a clone of doc, with the selector's fields merged
\* under its $set for a server-side upsert with an object selector
DvSnapshot(type, args1, sel, isUpsert, callback, detach, id, doc1, doc2, merge, snap1) ==
  DvClientCleaned(type, args1, sel, isUpsert, callback, detach, id, doc1, doc2, merge, snap1,
                  IF ~isServer THEN Clean(snap1, FALSE, TRUE, type # "insert") ELSE snap1)

\* variant: the selector's fields are laid over the $set entries
MergeSelectorOver(sel, doc2) ==
  Put(doc2, "$set",
      Extend(IF Has(doc2, "$set") THEN doc2["$set"] ELSE Empty, [k \in DOMAIN sel.cond |-> sel.cond[k].eq]))

\* _.extend(_.clone(selector), docToValidate.$set || {})
MergeSelector(sel, doc2) ==
  Put(doc2, "$set",
      Extend([k \in DOMAIN sel.cond |-> sel.cond[k].eq], IF Has(doc2, "$set") THEN doc2["$set"] ELSE Empty))

\* doClean(doc, (Meteor.isServer && !skipAutoValue), true, true) has run
DvCleaned(type, args1, sel, isUpsert, callback, detach, id, doc1, doc2, merge) ==
  DvSnapshot(type, args1, sel, isUpsert, callback, detach, id, doc1, doc2, merge,
             IF merge THEN MergeSelector(sel, doc2) ELSE doc2)

\* the _id is set aside when present, truthy and not a key of the schema
DvDetached(type, args1, sel, isUpsert, callback, detach, id, doc1, skipAutoValue) ==
  DvCleaned(type, args1, sel, isUpsert, callback, detach, id, doc1,
            Clean(doc1, TRUE, isServer /\ ~skipAutoValue, type # "insert"),
            isServer /\ isUpsert /\ sel.kind = "object")

Detaches(doc) == isServer /\ Has(doc, "_id") /\ Truthy(doc["_id"]) /\ ~AllowsKey("_id")

\* variant: the callback is wrapped before the early return
DvSkippedWraps(args1, sel, doc) ==
  [skipped |-> TRUE, returned |-> TRUE, ret |-> WrapLast(args1), thrown |-> FALSE, cb |-> "",
   doc |-> doc, cleaned |-> << >>, validated |-> << >>, queries |-> << >>,
   keys |-> << >>, selDuring |-> sel, selector |-> sel]

\* if (options.validate === false) return args: nothing else has run, and
\* the cached selector stays as it was set
DvSkipped(args1, sel, doc) ==
  [skipped |-> TRUE, returned |-> TRUE, ret |-> args1, thrown |-> FALSE, cb |-> "",
   doc |-> doc, cleaned |-> << >>, validated |-> << >>, queries |-> << >>,
   keys |-> << >>, selDuring |-> sel, selector |-> sel]

\* the arguments are gathered and the selector cached
DvGathered(type, args1, sel, doc, options, callback, skipAutoValue) ==
  IF Has(options, "validate") /\ options.validate = FALSE
    THEN DvSkipped(args1, sel, doc)
    ELSE DvDetached(type, args1, sel,
                    type = "upsert" \/ (type = "update" /\ Has(options, "upsert") /\ options.upsert = TRUE),
                    IF ~isServer /\ IsUndef(callback) THEN FnArg("default") ELSE callback,
                    Detaches(doc),
                    IF Has(doc, "_id") THEN doc["_id"] ELSE "",
                    IF Detaches(doc) THEN Del(doc, "_id") ELSE doc,
                    skipAutoValue)

\* doValidate.call(self, type, args, skipAutoValue, userId, isFromTrustedCode)
\* with at least the document (and, for update/upsert, the selector) supplied
DoValidate(type, args, skipAutoValue, isFromTrustedCode) ==
  DvGathered(type,
             IF type = "insert" THEN InsertArgs(args) ELSE args,
             IF type = "insert" THEN NullSel ELSE args[1].s,
             IF type = "insert" THEN args[1].v ELSE args[2].v,
             OptionsOf(type, args), CallbackOf(type, args), skipAutoValue)

(*********************** strings (error messages) **************************)
\* s.indexOf(sub): 0-based position of the first occurrence, or -1
IndexOf(s, sub) ==
  LET hits == {i \in 0..(Len(s) - Len(sub)) : SubSeq(s, i + 1, i + Len(sub)) = sub}
  IN IF hits = {} THEN 0 - 1 ELSE CHOOSE i \in hits : \A j \in hits : i <= j

\* s.split(sep)[0]
SplitFirst(s, sep) ==
  IF IndexOf(s, sep) = 0 - 1 THEN s ELSE SubSeq(s, 1, IndexOf(s, sep))

\* s.split(sep)[1], for s containing sep
SplitSecond(s, sep) ==
  SplitFirst(SubSeq(s, IndexOf(s, sep) + Len(sep) + 1, Len(s)), sep)

C2Prefix == <<"c", "2", "_">>
FieldChars(f) == IF f = "code" THEN <<"c", "o", "d", "e">> ELSE <<"?">>
\* the key name a parsed character sequence denotes
NameOf(cs) ==
  IF cs = <<"c", "o", "d", "e">> THEN "code"
  ELSE IF cs = <<"v", "m">> THEN "vm"
  ELSE "?"

\* var indexName = 'c2_' + fieldName
IndexName(f) == C2Prefix \o FieldChars(f)
IdIndexName == <<"_", "i", "d", "_">>

\* On the server, for a definition with an index: unique = !!definition.unique
\* && (indexValue === 1 || indexValue === -1), with index: true read as 1;
\* indexValue !== false ensures the index
UniqueIndexed(key) ==
  LET def == Definition(key)
  IN isServer /\ def.index # "absent" /\ def.index # "false"
       /\ def.unique /\ def.index \in {"true", "1", "-1"}

\* A field definition as a schema writes it: the index value and the
\* boolean options, "absent" for an option that is not given.  DefOf is the
\* definition as the rule reads it (an absent option is falsy).
DefOf(raw) ==
  [unique |-> raw.unique = "true", index |-> raw.index, optional |-> raw.optional = "true",
   denyInsert |-> raw.denyInsert = "true", denyUpdate |-> raw.denyUpdate = "true"]

\* variant: a descending index is not taken as unique
IndexUniqueAscending(raw, indexValue) == raw.unique = "true" /\ indexValue = "1"

\* var unique = !!definition.unique && (indexValue === 1 || indexValue === -1)
IndexUnique(raw, indexValue) == raw.unique = "true" /\ indexValue \in {"1", "-1"}

NoSetup ==
  [ensured |-> FALSE, dropped |-> FALSE, name |-> << >>, unique |-> FALSE, sparse |-> FALSE,
   warned |-> FALSE, raised |-> FALSE]

\* What attachSchema schedules at startup for one field: an _ensureIndex
\* with its options, or a _dropIndex whose failure is caught and logged.
IndexSetup(raw, fieldName, dropFails) ==
  IF ~(isServer /\ raw.index # "absent") THEN NoSetup
  ELSE IF (IF raw.index = "true" THEN "1" ELSE raw.index) # "false"
    THEN [ensured |-> TRUE, dropped |-> FALSE, name |-> IndexName(fieldName),
          unique |-> IndexUnique(raw, IF raw.index = "true" THEN "1" ELSE raw.index),
          sparse |-> raw.optional = "true"
                       /\ IndexUnique(raw, IF raw.index = "true" THEN "1" ELSE raw.index),
          warned |-> FALSE, raised |-> FALSE]
  ELSE [ensured |-> FALSE, dropped |-> TRUE, name |-> IndexName(fieldName),
        unique |-> FALSE, sparse |-> FALSE, warned |-> dropFails, raised |-> FALSE]

(************************** storage errors *********************************)
NoErr == [kind |-> "none"]
\* "E11000 $<index> dup"
DupKeyErr(indexName, code) ==
  [kind |-> "dup", name |-> "MongoError", code |-> code, hasMessage |-> TRUE,
   message |-> <<"E", "1", "1", "0", "0", "0", " ", "$">> \o indexName \o <<" ", "d", "u", "p">>]
\* an error that is no duplicate-key error: "no c2_vm up"
NetErr ==
  [kind |-> "net", name |-> "Error", code |-> 0, hasMessage |-> TRUE,
   message |-> <<"n", "o", " ", "c", "2", "_", "v", "m", " ", "u", "p">>]
\* an error object without a message
BareErr == [kind |-> "bare", name |-> "Error", code |-> 0, hasMessage |-> FALSE, message |-> << >>]
\* Meteor refuses an empty _id
BadIdErr ==
  [kind |-> "badid", name |-> "Error", code |-> 0, hasMessage |-> TRUE,
   message |-> <<"b", "a", "d", " ", "i", "d">>]

Faults == {"none", "net", "bare"}
FaultErr(f) == IF f = "net" THEN NetErr ELSE BareErr

(************************ the wrapped callback *****************************)
\* the truthiness of  error.message.indexOf('MongoError: E11000' !== -1):
\* the argument is the boolean true, converted to the string "true"
E11000Test(msg) == IndexOf(msg, <<"t", "r", "u", "e">>) # 0

\* The function returned by wrapCallbackForNotUnique, applied to (error):
\* crashed - reading error.message raised a TypeError, cb was not reached
\* keys    - the validation context's _invalidKeys afterwards
\* passed  - the error handed to cb
WrappedCall(error, keys) ==
  IF error.kind = "none"
    THEN [crashed |-> FALSE, keys |-> keys, cbCalls |-> 1, passed |-> error]
  ELSE IF ~error.hasMessage
    THEN [crashed |-> TRUE, keys |-> keys, cbCalls |-> 0, passed |-> NoErr]
  ELSE IF ((error.name = "MongoError" /\ error.code = 11001) \/ E11000Test(error.message))
          /\ IndexOf(error.message, C2Prefix) # 0 - 1
    THEN [crashed |-> FALSE,
          keys |-> Append(keys, [name |-> NameOf(SplitFirst(SplitSecond(error.message, C2Prefix), <<" ">>)),
                                 type |-> "notUnique"]),
          cbCalls |-> 1, passed |-> error]
  ELSE [crashed |-> FALSE, keys |-> keys, cbCalls |-> 1, passed |-> error]

(***************************** storage *************************************)
StoredKeys == {"_id", "code"}
Project(d) == Restrict(d, StoredKeys)
UsedIds(st) == {d["_id"] : d \in st}

\* two documents of st hold the same value of an indexed unique key
IndexViolated(st) ==
  UniqueIndexed("code") /\
  \E d1, d2 \in st : d1 # d2 /\ Has(d1, "code") /\ Has(d2, "code") /\ d1["code"] = d2["code"]

\* The underlying insert: the error it reports and the store afterwards.
StorageInsert(d, st, fault, newId) ==
  LET withId == IF Has(d, "_id") THEN d ELSE Put(d, "_id", newId)
      st2 == st \cup {Project(withId)}
  IN
  IF fault # "none" THEN [err |-> FaultErr(fault), store |-> st]
  ELSE IF Has(d, "_id") /\ ~Truthy(d["_id"]) THEN [err |-> BadIdErr, store |-> st]
  ELSE IF withId["_id"] \in UsedIds(st) THEN [err |-> DupKeyErr(IdIndexName, 11000), store |-> st]
  ELSE IF IndexViolated(st2)
    THEN [err |-> DupKeyErr(IndexName("code"), 11000), store |-> st]
  ELSE [err |-> NoErr, store |-> st2]

SelCond(sel) == IF sel.kind = "string" THEN "_id" :> Eq(sel.id) ELSE sel.cond
Matched(st, sel) == IF sel.kind = "null" THEN {} ELSE Find(st, SelCond(sel))

\* a modifier applied to one stored document
ApplyMod(d, m) ==
  LET set == IF Has(m, "$set") THEN m["$set"] ELSE Empty
      inc == IF Has(m, "$inc") THEN m["$inc"] ELSE Empty
      uns == IF Has(m, "$unset") THEN m["$unset"] ELSE Empty
      d1 == Extend(d, Project(set))
      d2 == [k \in DOMAIN d1 \cup (DOMAIN inc \cap StoredKeys) |->
               IF k \in DOMAIN inc
                 THEN (IF Has(d1, k) THEN d1[k] + inc[k] ELSE inc[k])
                 ELSE d1[k]]
  IN [k \in DOMAIN d2 \ DOMAIN uns |-> d2[k]]

\* the documents a modifier writes: all matched ones with multi, else one
Targets(st, sel, multi, pick) ==
  IF multi THEN Matched(st, sel) ELSE Matched(st, sel) \cap {pick}

\* The underlying update / upsert.
StorageUpdate(sel, m, isUpsert, multi, st, fault, pick, newId) ==
  LET targets == Targets(st, sel, multi, pick)
      base == IF sel.kind = "object"
                THEN [k \in DOMAIN sel.cond \cap StoredKeys |-> sel.cond[k].eq]
                ELSE "_id" :> sel.id
      fresh == ApplyMod(IF Has(base, "_id") THEN base ELSE Put(base, "_id", newId), m)
      st2 == IF Matched(st, sel) = {} /\ isUpsert
               THEN st \cup {fresh}
               ELSE (st \ targets) \cup {ApplyMod(d, m) : d \in targets}
  IN
  IF fault # "none" THEN [err |-> FaultErr(fault), store |-> st]
  ELSE IF IndexViolated(st2)
    THEN [err |-> DupKeyErr(IndexName("code"), 11001), store |-> st]
  ELSE [err |-> NoErr, store |-> st2]

(***************************** payloads ************************************)
Opt(k, vs) == {Empty} \cup {k :> x : x \in vs}

\* documents handed to insert: with or without an _id (possibly an empty
\* one), complete (name, maybe a code) or lacking the required name
InsertDocs ==
  {a @@ b : a \in Opt("_id", {"", IdPool[1]}),
            b \in {Empty} \cup {"name" :> "n" @@ c : c \in Opt("code", Codes)}}

\* by id, every document ({}), and a selector on the unique key itself
Selectors ==
  {StrSel(id) : id \in Ids} \cup {ObjSel(Empty), ObjSel("code" :> Eq(1))}

Modifiers ==
  {"$set" :> ("code" :> 1), "$set" :> ("code" :> 2 @@ "name" :> "n"),
   "$inc" :> ("code" :> 1), "$unset" :> ("name" :> "")}

SkipOpt == OptArg("validate" :> FALSE)
MultiOpt == OptArg("multi" :> TRUE)
UpsertOpt == OptArg("upsert" :> TRUE)
Cb == FnArg("cb")

InsertTails == {<< >>, <<Cb>>, <<OptArg(Empty), Cb>>, <<SkipOpt>>, <<SkipOpt, Cb>>}
UpdateTails == {<< >>, <<Cb>>, <<SkipOpt>>, <<MultiOpt, Cb>>, <<UpsertOpt>>}
UpsertTails == {<< >>, <<Cb>>, <<SkipOpt>>}

\* unvalidated updates are issued by id
WriteCalls(tails) ==
  {<<SelArg(sel), ObjArg(m)>> \o tail : sel \in Selectors, m \in Modifiers, tail \in tails \ {<<SkipOpt>>}}
    \cup {<<SelArg(StrSel(IdPool[1])), ObjArg(m), SkipOpt>> : m \in Modifiers}

\* storage failures are injected into calls that carry a callback
FaultsFor(sent) == IF IsFn(sent[Len(sent)]) THEN Faults ELSE {"none"}

(************************* outcome of a call *******************************)
Idle == [op |-> "idle"]
\* no rule has been applied on its own; no interleaved calls are in flight
NoRule == [kind |-> "none"]
NoCalls == << >>

\* how the result of the wrapped callback reaches the caller
FromWrapped(w) ==
  [keys |-> w.keys, cbCalls |-> w.cbCalls, passed |-> w.passed,
   thrown |-> IF w.crashed THEN "TypeError" ELSE "none", logged |-> FALSE]

\* how the result of the underlying storage call reaches the caller, for the
\* argument list args it was called with
Deliver(args, err, keys) ==
  IF args[Len(args)].t = "wrapped"
    THEN FromWrapped(WrappedCall(err, keys))
  ELSE IF args[Len(args)].t = "fn"
    THEN [keys |-> keys, cbCalls |-> 1, passed |-> err, thrown |-> "none", logged |-> FALSE]
  ELSE [keys |-> keys, cbCalls |-> 0, passed |-> NoErr,
        thrown |-> IF err.kind # "none" /\ isServer THEN "storage" ELSE "none",
        logged |-> err.kind # "none" /\ ~isServer]

\* the record of a call that doValidate ended (callback or raised error):
\* the wrapper returns a new id for insert and nothing for update / upsert
Stopped(op, args, dv) ==
  [op |-> op, args |-> args, pre |-> store, dv |-> dv, guard1 |-> << >>, denied |-> FALSE,
   forwarded |-> FALSE,
   sent |-> << >>, err |-> NoErr, passed |-> NoErr, keys |-> dv.keys,
   cbCalls |-> IF dv.cb = "cb" THEN 1 ELSE 0,
   cbArgs |-> IF dv.cb = "cb" THEN <<"validation", "false">> ELSE << >>,
   thrown |-> IF dv.thrown THEN "validation" ELSE "none",
   logged |-> dv.cb = "default",
   ret |-> IF dv.thrown THEN "raised" ELSE IF op = "insert" THEN "newId" ELSE "undefined"]

Delivered(op, args, dv, err, dl) ==
  [op |-> op, args |-> args, pre |-> store, dv |-> dv, guard1 |-> << >>, denied |-> FALSE,
   forwarded |-> TRUE,
   sent |-> dv.ret, err |-> err, passed |-> dl.passed, keys |-> dl.keys,
   cbCalls |-> dl.cbCalls,
   cbArgs |-> IF dl.cbCalls = 1 THEN <<dl.passed.kind>> ELSE << >>,
   thrown |-> dl.thrown, logged |-> dl.logged, ret |-> "storage"]

\* the record of a call forwarded to storage, storage reporting err
Sent(op, args, dv, err) == Delivered(op, args, dv, err, Deliver(dv.ret, err, dv.keys))

\* the record of an externally-originated write that went through the two
\* deny guards: guard1 is what the first guard handed to schema.clean, dv the
\* doValidate pass of the second guard, sent what reached storage
Guarded(op, args, dv, guard1, denied, sent, err) ==
  [op |-> op, args |-> args, pre |-> store, dv |-> dv, guard1 |-> guard1, denied |-> denied,
   forwarded |-> ~denied,
   sent |-> sent, err |-> err, passed |-> NoErr, keys |-> dv.keys,
   cbCalls |-> 0, cbArgs |-> << >>,
   thrown |-> IF dv.thrown THEN "validation" ELSE "none", logged |-> FALSE, ret |-> "guard"]

(****************************** actions ************************************)
CodesBounded(st) == \A d \in st : Has(d, "code") => d["code"] \in Codes

\* Meteor.Collection.prototype.insert, wrapped
Insert ==
  /\ call = Idle
  /\ \E d \in InsertDocs, tail \in InsertTails :
       \E dv \in {DoValidate("insert", <<ObjArg(d)>> \o tail, FALSE, isServer)} :
          /\ c2selector' = dv.selector
          /\ IF ~dv.returned
               THEN /\ store' = store
                    /\ call' = Stopped("insert", <<ObjArg(d)>> \o tail, dv)
               ELSE \E fault \in FaultsFor(dv.ret),
                       newId \in IF Has(dv.ret[1].v, "_id") THEN {IdPool[1]} ELSE Ids \ UsedIds(store) :
                      \E r \in {StorageInsert(dv.ret[1].v, store, fault, newId)} :
                         /\ store' = r.store
                         /\ call' = Sent("insert", <<ObjArg(d)>> \o tail, dv, r.err)
  /\ UNCHANGED <<isServer, codeIndex, allowsId, rule, inflight>>

\* the options the underlying update receives
SentOptions(sent) == IF Arg(sent, 3).t = "opts" THEN sent[3].o ELSE Empty
SentUpsert(op, sent) ==
  op = "upsert" \/ (Has(SentOptions(sent), "upsert") /\ SentOptions(sent).upsert = TRUE)
SentMulti(sent) == Has(SentOptions(sent), "multi") /\ SentOptions(sent).multi = TRUE

\* Meteor.Collection.prototype.update / upsert, wrapped
Write(op, tails) ==
  /\ \E args \in WriteCalls(tails) :
       \E dv \in {DoValidate(op, args, FALSE, isServer)} :
          /\ c2selector' = dv.selector
          /\ IF ~dv.returned
               THEN /\ store' = store
                    /\ call' = Stopped(op, args, dv)
               ELSE \E fault \in FaultsFor(dv.ret),
                       newId \in IF SentUpsert(op, dv.ret) /\ Matched(store, args[1].s) = {}
                                      /\ args[1].s.kind = "object"
                                   THEN Ids \ UsedIds(store) ELSE {IdPool[1]},
                       pick \in IF ~SentMulti(dv.ret) /\ Matched(store, args[1].s) # {}
                                  THEN Matched(store, args[1].s) ELSE {Empty} :
                      \E r \in {StorageUpdate(dv.ret[1].s, dv.ret[2].v, SentUpsert(op, dv.ret),
                                              SentMulti(dv.ret), store, fault, pick, newId)} :
                         /\ CodesBounded(r.store)
                         /\ store' = r.store
                         /\ call' = Sent(op, args, dv, r.err)
  /\ UNCHANGED <<isServer, codeIndex, allowsId, rule, inflight>>

Update ==
  /\ call = Idle
  /\ Write("update", UpdateTails)

Upsert ==
  /\ call = Idle
  /\ Write("upsert", UpsertTails)

\* variant: the document reaches re-validation as it arrived
Guard1InsertLater(d) ==
  [handed |-> IF Detaches(d) THEN Del(d, "_id") ELSE d, left |-> d]

\* the first deny guard of insert: the document it hands to schema.clean
\* (its _id set aside) and the document it leaves behind
Guard1Insert(d) ==
  [handed |-> IF Detaches(d) THEN Del(d, "_id") ELSE d,
   left |-> IF Detaches(d)
              THEN Put(Clean(Del(d, "_id"), TRUE, TRUE, FALSE), "_id", d["_id"])
              ELSE Clean(d, TRUE, TRUE, FALSE)]

\* An insert arriving from a client: the first deny guard cleans the document
\* in place, the second replays doValidate; an insert no guard denies reaches
\* the underlying collection.
DenyInsert ==
  /\ call = Idle
  /\ isServer
  /\ \E d \in InsertDocs :
       \E g \in {Guard1Insert(d)} :
       \E dv \in {DoValidate("insert", <<ObjArg(g.left), OptArg(Empty), FnArg("guard")>>, TRUE, FALSE)} :
          /\ c2selector' = dv.selector
          /\ IF dv.cb = "guard"
               THEN /\ store' = store
                    /\ call' = Guarded("denyInsert", <<ObjArg(d)>>, dv, <<g.handed>>, TRUE, << >>, NoErr)
               ELSE \E newId \in IF Has(dv.doc, "_id") THEN {IdPool[1]} ELSE Ids \ UsedIds(store) :
                      \E r \in {StorageInsert(dv.doc, store, "none", newId)} :
                         /\ store' = r.store
                         /\ call' = Guarded("denyInsert", <<ObjArg(d)>>, dv, <<g.handed>>, FALSE,
                                             <<ObjArg(dv.doc)>>, r.err)
  /\ UNCHANGED <<isServer, codeIndex, allowsId, rule, inflight>>

\* An update arriving from a client (always by id, never an upsert).
DenyUpdate ==
  /\ call = Idle
  /\ isServer
  /\ \E id \in Ids, m \in Modifiers :
       \E dv \in {DoValidate("update", <<SelArg(NullSel), ObjArg(Clean(m, TRUE, TRUE, TRUE)),
                                         OptArg(Empty), FnArg("guard")>>, TRUE, FALSE)} :
          /\ c2selector' = dv.selector
          /\ IF dv.cb = "guard"
               THEN /\ store' = store
                    /\ call' = Guarded("denyUpdate", <<SelArg(StrSel(id)), ObjArg(m)>>, dv, <<m>>, TRUE,
                                        << >>, NoErr)
               ELSE \E pick \in IF Matched(store, StrSel(id)) = {} THEN {Empty}
                                  ELSE Matched(store, StrSel(id)) :
                      \E r \in {StorageUpdate(StrSel(id), dv.doc, FALSE, FALSE, store, "none", pick,
                                              IdPool[1])} :
                         /\ CodesBounded(r.store)
                         /\ store' = r.store
                         /\ call' = Guarded("denyUpdate", <<SelArg(StrSel(id)), ObjArg(m)>>, dv, <<m>>,
                                             FALSE, <<SelArg(StrSel(id)), ObjArg(dv.doc)>>, r.err)
  /\ UNCHANGED <<isServer, codeIndex, allowsId, rule, inflight>>

\* the caller has the outcome; the next call may be issued
Done ==
  /\ call # Idle
  /\ call' = Idle
  /\ UNCHANGED <<isServer, codeIndex, allowsId, store, c2selector, rule, inflight>>

\* the deployments: server or client, code indexed or not, _id declared or not
Init ==
  /\ isServer \in BOOLEAN
  /\ codeIndex \in {"absent", "1"}
  /\ allowsId \in BOOLEAN
  /\ allowsId => (isServer /\ codeIndex = "absent")
  /\ store = {}
  /\ c2selector = NullSel
  /\ call = Idle
  /\ rule = NoRule
  /\ inflight = NoCalls

Next == Insert \/ Update \/ Upsert \/ DenyInsert \/ DenyUpdate \/ Done

Spec == Init /\ [][Next]_vars

(*************** the rule and the index setup on their own *****************)
IndexValues == {"absent", "true", "false", "1", "-1", "2", "text"}
Flags == {"absent", "true", "false"}

\* definitions that vary the two policies, with and without uniqueness
PolicyDefinitions ==
  [index : {"absent", "1"}, unique : {"absent", "true"}, optional : {"absent"},
   denyInsert : Flags, denyUpdate : Flags]

\* definitions that vary the index, unique and optional options
IndexDefinitions ==
  [index : IndexValues, unique : Flags, optional : Flags,
   denyInsert : {"absent"}, denyUpdate : {"absent"}]

RuleOps == {"", "$set", "$inc", "$unset", "$push"}
RuleValues == {Undef, Null, JsFalse, Num(0), EmptyStr, Num(1)}
RuleStores == {{}, {"_id" :> "a" @@ "code" :> 1}}
RuleSelectors == {NullSel, StrSel("a"), ObjSel(Empty)}

\* ctx.validate applies the rule to the field code
ApplyRule ==
  /\ rule = NoRule
  /\ \E raw \in PolicyDefinitions, op \in RuleOps, val \in RuleValues :
       \E r \in {Rule(DefOf(raw), "code", val, op, store, c2selector)} :
          rule' = [kind |-> "validator", def |-> raw, op |-> op, val |-> val,
                   res |-> r.res, queries |-> r.queries, deferred |-> r.deferred]
  /\ UNCHANGED <<isServer, codeIndex, allowsId, store, c2selector, call, inflight>>

\* attachSchema sets up the index of the field code, whose rule is then
\* applied to a write
AttachField ==
  /\ rule = NoRule
  /\ \E raw \in IndexDefinitions, dropFails \in BOOLEAN, op \in {"", "$set"},
        val \in {Undef, Null, Num(1)} :
       \E r \in {Rule(DefOf(raw), "code", val, op, store, c2selector)} :
          rule' = [kind |-> "attach", def |-> raw, op |-> op, val |-> val,
                   dropFails |-> dropFails, setup |-> IndexSetup(raw, "code", dropFails),
                   res |-> r.res, queries |-> r.queries, deferred |-> r.deferred]
  /\ UNCHANGED <<isServer, codeIndex, allowsId, store, c2selector, call, inflight>>

\* the rule has returned
RuleDone ==
  /\ rule # NoRule
  /\ rule' = NoRule
  /\ UNCHANGED <<isServer, codeIndex, allowsId, store, c2selector, call, inflight>>

RuleInit ==
  /\ isServer \in BOOLEAN
  /\ codeIndex = "absent"
  /\ allowsId = FALSE
  /\ store \in RuleStores
  /\ c2selector \in RuleSelectors
  /\ call = Idle
  /\ rule = NoRule
  /\ inflight = NoCalls

RuleNext == ApplyRule \/ AttachField \/ RuleDone

RuleSpec == RuleInit /\ [][RuleNext]_vars

(********************* interleaved calls on the server *********************)
\* Server code runs each call in a fiber of its own; a fiber gives way to
\* the others only while it waits for the storage engine: at the count and
\* findOne lookups of the rule and at the write itself.  One action is what
\* a fiber does from one such point to the next.  The schema here declares
\* two unique, optional keys without an index; every update is
\* update(id, {$set: doc}).
Fibers == {"f", "g"}
ConcKeys == <<"code", "serial">>

ConcDefinition(key) ==
  [unique |-> TRUE, index |-> "absent", optional |-> TRUE,
   denyInsert |-> FALSE, denyUpdate |-> FALSE]

\* the values of serial; the documents inserted and the $set objects of
\* the updates
Serials == {1}
ConcPayloads == [code : Codes] \cup [serial : Serials] \cup [code : Codes, serial : Serials]

\* a fiber that runs no call
Resting ==
  [pc |-> "rest", type |-> "", sel |-> NullSel, doc |-> Empty, key |-> 0,
   local |-> NullSel, reads |-> << >>, using |-> 0, invalid |-> FALSE]

\* ctx.validate from key number j on, up to the rule's next lookup or to
\* the end of validation.  shared is self._c2._selector as the fiber finds
\* it; reads lists what line 149 read for the fiber.
RECURSIVE ConcValidate(_, _, _)
ConcValidate(fb, j, shared) ==
  IF j > Len(ConcKeys)
    THEN [fb EXCEPT !.pc = IF fb.invalid THEN "failed" ELSE "write", !.key = 0]
  ELSE IF ~ConcDefinition(ConcKeys[j]).unique \/ ~Has(fb.doc, ConcKeys[j])
    THEN ConcValidate(fb, j + 1, shared)
  ELSE IF isServer /\ IndexUsable(ConcDefinition(ConcKeys[j]).index)
    THEN ConcValidate(fb, j + 1, shared)
  ELSE IF fb.type = "insert"
    THEN [fb EXCEPT !.pc = "findOne", !.key = j]
  ELSE IF shared = NullSel
    THEN ConcValidate([fb EXCEPT !.reads = Append(@, shared)], j + 1, shared)
  ELSE [fb EXCEPT !.pc = "count1", !.key = j, !.local = shared, !.reads = Append(@, shared)]

\* self._c2._selector after the fiber's step: cleared at the end of validation
ConcSelector(fb, shared) == IF fb.pc \in {"write", "failed"} THEN NullSel ELSE shared

\* insert(doc) up to the first lookup
ConcInsert(f) ==
  /\ inflight[f].pc = "rest"
  /\ Cardinality(store)
       + Cardinality({g \in Fibers : inflight[g].type = "insert"}) < MaxDocs
  /\ \E d \in ConcPayloads :
       \E r \in {ConcValidate([Resting EXCEPT !.type = "insert", !.doc = d], 1, NullSel)} :
          /\ inflight' = [inflight EXCEPT ![f] = r]
          /\ c2selector' = ConcSelector(r, NullSel)
  /\ UNCHANGED <<isServer, codeIndex, allowsId, store, call, rule>>

\* update(id, {$set: doc}) up to the first lookup
ConcUpdate(f) ==
  /\ inflight[f].pc = "rest"
  /\ \E id \in Ids, d \in ConcPayloads :
       \E r \in {ConcValidate([Resting EXCEPT !.type = "update", !.sel = StrSel(id), !.doc = d],
                              1, StrSel(id))} :
          /\ inflight' = [inflight EXCEPT ![f] = r]
          /\ c2selector' = ConcSelector(r, StrSel(id))
  /\ UNCHANGED <<isServer, codeIndex, allowsId, store, call, rule>>

\* self.findOne(test) answers; validation goes on
ConcFindOne(f) ==
  /\ inflight[f].pc = "findOne"
  /\ \E fb \in {inflight[f]} :
       \E found \in {Find(store, ConcKeys[fb.key] :> Eq(fb.doc[ConcKeys[fb.key]])) # {}} :
         \E r \in {ConcValidate([fb EXCEPT !.invalid = @ \/ found], fb.key + 1, c2selector)} :
            /\ inflight' = [inflight EXCEPT ![f] = r]
            /\ c2selector' = ConcSelector(r, c2selector)
  /\ UNCHANGED <<isServer, codeIndex, allowsId, store, call, rule>>

\* self.find(test).count() answers; the second count is asked for
ConcCount1(f) ==
  /\ inflight[f].pc = "count1"
  /\ \E fb \in {inflight[f]} :
       inflight' = [inflight EXCEPT ![f] =
                      [fb EXCEPT !.pc = "count2",
                                 !.using = Count(store, ConcKeys[fb.key] :> Eq(fb.doc[ConcKeys[fb.key]]))]]
  /\ UNCHANGED <<isServer, codeIndex, allowsId, store, c2selector, call, rule>>

\* self.find(sel).count() answers; validation goes on
ConcCount2(f) ==
  /\ inflight[f].pc = "count2"
  /\ \E fb \in {inflight[f]} :
       \E willUse \in {Count(store, Put(SelCond(fb.local), ConcKeys[fb.key],
                                        Ne(fb.doc[ConcKeys[fb.key]])))} :
         \E r \in {ConcValidate([fb EXCEPT !.invalid = @ \/ (fb.using + willUse > 1)],
                                fb.key + 1, c2selector)} :
            /\ inflight' = [inflight EXCEPT ![f] = r]
            /\ c2selector' = ConcSelector(r, c2selector)
  /\ UNCHANGED <<isServer, codeIndex, allowsId, store, call, rule>>

\* the forwarded write reaches the store and the call returns
ConcWrite(f) ==
  /\ inflight[f].pc = "write"
  /\ \E fb \in {inflight[f]} :
       IF fb.type = "insert"
         THEN \E newId \in Ids \ UsedIds(store) : store' = store \cup {Put(fb.doc, "_id", newId)}
         ELSE store' = (store \ Matched(store, fb.sel))
                          \cup {Extend(d, fb.doc) : d \in Matched(store, fb.sel)}
  /\ inflight' = [inflight EXCEPT ![f] = Resting]
  /\ UNCHANGED <<isServer, codeIndex, allowsId, c2selector, call, rule>>

\* validation failed: the error is delivered, nothing is written
ConcFailed(f) ==
  /\ inflight[f].pc = "failed"
  /\ inflight' = [inflight EXCEPT ![f] = Resting]
  /\ UNCHANGED <<isServer, codeIndex, allowsId, store, c2selector, call, rule>>

ConcInit ==
  /\ isServer = TRUE
  /\ codeIndex = "absent"
  /\ allowsId = FALSE
  /\ store = {}
  /\ c2selector = NullSel
  /\ call = Idle
  /\ rule = NoRule
  /\ inflight = [f \in Fibers |-> Resting]

ConcNext ==
  \E f \in Fibers :
    \/ ConcInsert(f)
    \/ ConcUpdate(f)
    \/ ConcFindOne(f)
    \/ ConcCount1(f)
    \/ ConcCount2(f)
    \/ ConcWrite(f)
    \/ ConcFailed(f)

ConcSpec == ConcInit /\ [][ConcNext]_vars

(***************************** properties **********************************)
WrapperOps == {"insert", "update", "upsert"}

\* the call went through the wrapper and validation was not skipped
Checked == call.op \in WrapperOps /\ ~call.dv.skipped

KeyIn(keys, name, type) == \E i \in DOMAIN keys : keys[i] = [name |-> name, type |-> type]
Supplied(args) == \E i \in DOMAIN args : args[i].t = "fn"
Holders(st, v) == {d \in st : Has(d, "code") /\ d["code"] = v}
\* uniqueness of code is checked by the rule's own queries
LocallyChecked == ~(isServer /\ IndexUsable(codeIndex))
NotOptions(a) == a.t # "opts"
NoStamp(o) == ~Has(o, "stamp")

\* C1: when validation is not skipped and the schema reports the document or
\* modifier invalid, the underlying storage operation is not invoked, with
\* or without a callback: nothing is forwarded, the store is as before the
\* call, the failure carries the invalid keys (the missing required field
\* by name), and the wrapper either lets the raised error through or returns
\* (a new id for insert, nothing otherwise).
C1_InvalidNeverReachesStorage ==
  (Checked /\ call.dv.keys # << >>) =>
     /\ ~call.forwarded
     /\ call.sent = << >>
     /\ store = call.pre
     /\ call.keys = call.dv.keys
     /\ call.ret = IF call.thrown = "validation" THEN "raised"
                   ELSE IF call.op = "insert" THEN "newId" ELSE "undefined"
     /\ (call.op = "insert" /\ ~Has(call.args[1].v, "name"))
          => KeyIn(call.keys, "name", "required")

\* an insert without the required name and without a callback has failed
C1_Witness ==
  /\ Checked /\ call.op = "insert" /\ ~Has(call.args[1].v, "name")
  /\ ~Supplied(call.args) /\ call.thrown = "validation" /\ ~call.forwarded

\* C2: an insert carrying a value v of the unique field code, with nothing
\* else wrong with it (no storage fault, no clash or defect of its _id):
\* if no stored document holds v it succeeds and exactly one document holds
\* v afterwards; if a stored document holds v the store is left as it was
\* and, where uniqueness is checked locally or the duplicate-key error
\* comes back through the wrapped callback, the invalid keys hold a
\* notUnique record for code.
C2_SecondInsertNotUnique ==
  (/\ call.op = "insert" /\ ~call.dv.skipped
   /\ Has(call.args[1].v, "name") /\ Has(call.args[1].v, "code")
   /\ call.err \in {NoErr, DupKeyErr(IndexName("code"), 11000)})
  => IF Holders(call.pre, call.args[1].v["code"]) # {}
       THEN /\ store = call.pre
            /\ (LocallyChecked \/ call.cbCalls = 1) => KeyIn(call.keys, "code", "notUnique")
       ELSE /\ call.forwarded /\ call.err = NoErr
            /\ ~KeyIn(call.keys, "code", "notUnique")
            /\ Cardinality(Holders(store, call.args[1].v["code"])) = 1

\* the storage engine's index refused a second insert of a held value and
\* the wrapped callback translated the error
C2_Witness ==
  /\ call.op = "insert" /\ isServer /\ IndexUsable(codeIndex)
  /\ call.err = DupKeyErr(IndexName("code"), 11000)
  /\ Holders(call.pre, call.args[1].v["code"]) # {}
  /\ call.cbCalls = 1 /\ KeyIn(call.keys, "code", "notUnique")

\* C3: a plain update {$set: {code: v}} with selector S, checked locally:
\* it fails with notUnique if it matches a document and a document other
\* than the ones matched by S holds v, it fails if two or more matched documents would all receive v,
\* and it succeeds whenever exactly one document in total would hold v
\* once the update is applied.
C3_LocalUpdateUniqueness ==
  (/\ call.op = "update" /\ ~call.dv.skipped /\ LocallyChecked
   /\ Has(call.args[2].v, "$set") /\ Has(call.args[2].v["$set"], "code")
   /\ Arg(call.args, 3) # UpsertOpt)
  => LET v == call.args[2].v["$set"]["code"]
         M == Matched(call.pre, call.args[1].s)
         multi == Arg(call.args, 3) = MultiOpt
         targetSets == IF multi \/ M = {} THEN {M} ELSE {{d} : d \in M}
         After(T) == (call.pre \ T) \cup {ApplyMod(d, call.args[2].v) : d \in T}
         fails == KeyIn(call.dv.keys, "code", "notUnique")
     IN /\ (M # {} /\ Holders(call.pre \ M, v) # {}) => fails
        /\ (multi /\ Cardinality(M) >= 2) => fails
        /\ (\A T \in targetSets : Cardinality(Holders(After(T), v)) = 1)
             => (~fails /\ call.forwarded)

\* C4: an update whose operator on the unique field code is $inc bypasses
\* the uniqueness check: no notUnique is reported for code and no lookup of
\* documents holding the increment amount is made.
C4_IncBypassesUniqueness ==
  (/\ call.op \in {"update", "upsert"} /\ ~call.dv.skipped
   /\ Has(call.args[2].v, "$inc") /\ Has(call.args[2].v["$inc"], "code"))
  => /\ ~KeyIn(call.dv.keys, "code", "notUnique")
     /\ \A i \in DOMAIN call.dv.queries :
          call.dv.queries[i] # ("code" :> Eq(call.args[2].v["$inc"]["code"]))

\* C5: on the server, with _id not a key of the schema, a document that
\* carries a (non-empty) _id holds the same _id again once doValidate has
\* completed, however it completed.
C5_IdRoundTrips ==
  (/\ call.op = "insert" /\ isServer /\ ~allowsId
   /\ Has(call.args[1].v, "_id") /\ Truthy(call.args[1].v["_id"]))
  => /\ Has(call.dv.doc, "_id")
     /\ call.dv.doc["_id"] = call.args[1].v["_id"]

\* C6: with _id not a key of the schema, no document handed to schema.clean
\* or ctx.validate contains an _id, in every context (server, client, the
\* two deny guards) and for every _id value.
C6_IdNeverCleanedOrValidated ==
  (call.op # "idle" /\ ~allowsId)
  => /\ \A i \in DOMAIN call.dv.cleaned : ~Has(call.dv.cleaned[i], "_id")
     /\ \A i \in DOMAIN call.dv.validated : ~Has(call.dv.validated[i], "_id")
     /\ \A i \in DOMAIN call.guard1 : ~Has(call.guard1[i], "_id")

\* C7: in a client-originated write the automatic values computed for
\* validation stay in the snapshot: the document or modifier doValidate
\* returns for storage holds no automatic value, nested $set included.
C7_ClientAutoValuesStayInSnapshot ==
  (Checked /\ ~isServer /\ call.dv.returned)
  => IF call.op = "insert"
       THEN NoStamp(call.sent[1].v)
       ELSE \A o \in DOMAIN call.sent[2].v : NoStamp(call.sent[2].v[o])

\* C8, as worded: with validate: false the document or modifier reaches
\* storage as the caller gave it, the arguments are passed through
\* unchanged, no callback is wrapped and no validation error occurs.
C8_SkipPassesArgumentsUnchanged ==
  (call.op \in WrapperOps /\ call.dv.skipped)
  => /\ call.forwarded
     /\ call.sent = call.args
     /\ call.dv.keys = << >> /\ call.thrown # "validation"

\* C8, restated: with validate: false nothing is cleaned or validated, the
\* document or modifier reaches storage as the caller gave it, no callback
\* is wrapped, no validation error occurs and no invalid key is recorded;
\* update and upsert pass their arguments through unchanged, insert passes
\* its arguments without the options argument.
C8_SkipForwardsDocumentUntouched ==
  (call.op \in WrapperOps /\ call.dv.skipped)
  => /\ call.forwarded
     /\ call.dv.cleaned = << >> /\ call.dv.validated = << >>
     /\ call.dv.keys = << >> /\ call.keys = << >> /\ call.thrown # "validation"
     /\ \A i \in DOMAIN call.sent : call.sent[i].t # "wrapped"
     /\ IF call.op = "insert"
          THEN /\ call.sent = SelectSeq(call.args, NotOptions)
               /\ call.sent[1] = call.args[1]
          ELSE call.sent = call.args

\* an unvalidated insert of a document with an _id, with a callback
C8_Witness ==
  /\ call.op = "insert" /\ call.dv.skipped /\ isServer /\ ~allowsId
  /\ Has(call.args[1].v, "_id") /\ Supplied(call.args) /\ call.cbCalls = 1

\* C9: a validation failure is delivered through exactly one channel: a
\* supplied callback (in the callback or in the options position) is invoked
\* once with (error, false) and nothing is raised; without a callback the
\* server raises the error, and the client logs it through the default
\* callback and raises nothing.  The error carries the invalid keys.
C9_OneChannel ==
  (Checked /\ call.dv.keys # << >>)
  => /\ call.keys = call.dv.keys
     /\ IF Supplied(call.args)
          THEN /\ call.cbCalls = 1 /\ call.cbArgs = <<"validation", "false">>
               /\ call.thrown = "none" /\ ~call.logged
        ELSE IF isServer
          THEN call.cbCalls = 0 /\ call.thrown = "validation" /\ ~call.logged
        ELSE call.cbCalls = 0 /\ call.thrown = "none" /\ call.logged

\* an invalid insert whose callback stands in the options position
C9_Witness ==
  /\ Checked /\ call.op = "insert" /\ call.dv.keys # << >>
  /\ Len(call.args) = 2 /\ call.args[2] = Cb
  /\ call.cbCalls = 1 /\ call.thrown = "none"

\* C10: the wrapped callback appends a notUnique record only for a
\* duplicate-key error whose message names a c2_ index; for an error that
\* is no duplicate-key error (whatever its message contains) the invalid
\* keys stay as they were and the error is passed on unchanged.
C10_OnlyDuplicateKeyErrorsTranslated ==
  (/\ call.op \in WrapperOps /\ call.forwarded
   /\ call.sent[Len(call.sent)].t = "wrapped"
   /\ call.err.kind \in {"dup", "net", "badid"})
  => /\ (call.keys # call.dv.keys) => call.err.kind = "dup"
     /\ (call.err.kind # "dup") => (call.keys = call.dv.keys /\ call.passed = call.err)


\* C11: for a field with denyUpdate the rule depends on the operator and
\* the value alone: it yields updateNotAllowed for every operator applied to
\* the field except $set with an undefined value, for which it yields no
\* error, and never for an insert (no operator).
C11_DenyUpdateRule ==
  (rule.kind = "validator" /\ rule.def.denyUpdate = "true")
  => /\ (rule.res = "updateNotAllowed")
          <=> (rule.op # "" /\ ~(rule.op = "$set" /\ rule.val = Undef))
     /\ (rule.op # "") => ((rule.res = "true") <=> (rule.op = "$set" /\ rule.val = Undef))

\* $inc on a field with denyUpdate has been refused
C11_Witness ==
  /\ rule.kind = "validator" /\ rule.def.denyUpdate = "true"
  /\ rule.op = "$inc" /\ rule.res = "updateNotAllowed"

\* C12: for a field with denyInsert every insert that carries the field
\* yields insertNotAllowed whatever the value (null, false, 0 and the empty
\* string included), and an operation with a modifier operator never does.
C12_DenyInsertRule ==
  (rule.kind = "validator" /\ rule.def.denyInsert = "true")
  => /\ (rule.op = "" /\ rule.val # Undef) => rule.res = "insertNotAllowed"
     /\ (rule.op # "") => rule.res # "insertNotAllowed"

\* an insert of null into a field with denyInsert has been refused
C12_Witness ==
  /\ rule.kind = "validator" /\ rule.def.denyInsert = "true"
  /\ rule.op = "" /\ rule.val = Null /\ rule.res = "insertNotAllowed"

\* C13: the cached selector lives for one validation pass: whenever no
\* call is in progress the collection's cached selector is null, whatever
\* calls were made before, with whatever options and outcomes.
C13_SelectorNullWhenIdle == (call = Idle) => (c2selector = NullSel)

\* C14: for an update or upsert with cached selector S that sets the locally
\* checked unique field code to v, notUnique is reported iff the number of
\* documents holding v plus the number of documents that match S and do not
\* hold v exceeds one, for every S (a selector on code itself and a bare
\* string selector included).
C14_CountFormula ==
  (/\ call.op \in {"update", "upsert"} /\ ~call.dv.skipped /\ LocallyChecked
   /\ Has(call.args[2].v, "$set") /\ Has(call.args[2].v["$set"], "code"))
  => (KeyIn(call.dv.keys, "code", "notUnique")
        <=> Cardinality(Holders(call.pre, call.args[2].v["$set"]["code"]))
              + Cardinality(Matched(call.pre, call.args[1].s)
                              \ Holders(call.pre, call.args[2].v["$set"]["code"])) > 1)

\* C18: the wrapped callback invokes the user's callback exactly once with
\* the arguments storage gave it, for every storage outcome (success, a
\* duplicate-key error, an error that names no c2_ index, an error without
\* a message), and never raises.
C18_CallbackAlwaysInvokedOnce ==
  (/\ call.op \in WrapperOps /\ call.forwarded
   /\ call.sent[Len(call.sent)].t = "wrapped")
  => /\ call.cbCalls = 1
     /\ call.passed = call.err
     /\ call.thrown = "none"

\* C16: for an externally-originated insert or update the cleaning guard
\* has run before the re-validation guard: re-validation sees the document
\* or modifier with the automatic value the cleaning guard injected; the
\* write is denied iff re-validation reports it invalid, nothing is raised,
\* and a denied write does not reach storage.
C16_GuardsInOrder ==
  (call.op \in {"denyInsert", "denyUpdate"})
  => /\ call.denied <=> (call.dv.keys # << >>)
     /\ call.thrown = "none" /\ ~call.dv.thrown
     /\ call.denied => (~call.forwarded /\ store = call.pre)
     /\ ~call.denied => call.forwarded
     /\ Len(call.guard1) = 1 /\ Len(call.dv.validated) = 1
     /\ IF call.op = "denyInsert"
          THEN /\ Has(call.dv.validated[1], "stamp")
               /\ call.dv.validated[1]["stamp"] = "auto"
          ELSE /\ Has(call.dv.validated[1], "$set")
               /\ Has(call.dv.validated[1]["$set"], "stamp")
               /\ call.dv.validated[1]["$set"]["stamp"] = "auto"

\* a client's insert passed both guards with the automatic value in place
C16_Witness ==
  /\ call.op = "denyInsert" /\ ~call.denied /\ call.forwarded
  /\ ~Has(call.args[1].v, "stamp")
  /\ call.dv.validated[1]["stamp"] = "auto"

\* C17: for a server-side upsert with an object selector the snapshot's
\* $set holds the selector's fields and the cleaned modifier's $set entries,
\* the modifier's value on every key in both; the modifier forwarded to
\* storage is the cleaned modifier, and the selector is the caller's.
C17_UpsertSnapshot ==
  (/\ call.op \in {"update", "upsert"} /\ isServer /\ ~call.dv.skipped
   /\ (call.op = "upsert" \/ Arg(call.args, 3) = UpsertOpt)
   /\ call.args[1].s.kind = "object")
  => LET S == call.args[1].s.cond
         M == Clean(call.args[2].v, TRUE, TRUE, TRUE)
         snap == call.dv.validated[1]["$set"]
     IN /\ DOMAIN snap = DOMAIN S \cup DOMAIN M["$set"]
        /\ \A k \in DOMAIN snap :
             snap[k] = IF k \in DOMAIN M["$set"] THEN M["$set"][k] ELSE S[k].eq
        /\ call.dv.doc = M
        /\ call.dv.selDuring = call.args[1].s
        /\ call.forwarded => (call.sent[2].v = M /\ call.sent[1] = call.args[1])

\* a server upsert whose selector and $set give different values to code
C17_Witness ==
  /\ call.op = "upsert" /\ isServer /\ ~call.dv.skipped
  /\ call.args[1].s = ObjSel("code" :> Eq(1))
  /\ Has(call.args[2].v, "$set") /\ call.args[2].v["$set"]["code"] = 2
  /\ call.dv.validated[1]["$set"]["code"] = 2
  /\ call.forwarded

\* C20: for every field definition, whenever the server's uniqueness rule
\* defers to the storage engine, attachSchema has scheduled an ensure-index
\* named c2_<field> with unique = true; a scheduled index is sparse iff the
\* field is optional and the index unique; an index of false schedules a
\* drop of c2_<field> and no ensure, and a failing drop raises nothing.
C20_DeferredImpliesUniqueIndex ==
  (rule.kind = "attach")
  => /\ rule.deferred
          => /\ rule.setup.ensured /\ ~rule.setup.dropped
             /\ rule.setup.unique
             /\ rule.setup.name = <<"c", "2", "_", "c", "o", "d", "e">>
     /\ rule.setup.ensured
          => (rule.setup.sparse <=> (rule.def.optional = "true" /\ rule.setup.unique))
     /\ (isServer /\ rule.def.index = "false")
          => /\ rule.setup.dropped /\ ~rule.setup.ensured
             /\ rule.setup.name = <<"c", "2", "_", "c", "o", "d", "e">>
             /\ ~rule.setup.raised
             /\ rule.setup.warned <=> rule.dropFails
     /\ ~isServer => rule.setup = NoSetup

\* the rule deferred on a unique field with a descending index
C20_Witness ==
  /\ rule.kind = "attach" /\ rule.deferred
  /\ rule.def.index = "-1" /\ rule.def.optional = "true"
  /\ rule.setup.ensured /\ rule.setup.unique /\ rule.setup.sparse

\* an index of false whose drop failed
C20_WitnessDrop ==
  /\ rule.kind = "attach" /\ rule.def.index = "false" /\ rule.dropFails
  /\ rule.setup.dropped /\ rule.setup.warned /\ ~rule.setup.raised

\* C15: when update calls interleave at the lookups of the uniqueness
\* rule, every read of the cached selector made for a call yields that
\* call's own selector, never null and never another call's.  (While the
\* store is empty and no insert is in flight only updates have run.)
C15_ChecksReadOwnSelector ==
  (store = {} /\ \A g \in Fibers : inflight[g].type # "insert")
  => \A f \in Fibers :
       \A i \in 1..Len(inflight[f].reads) : inflight[f].reads[i] = inflight[f].sel

\* C19: with uniqueness enforced by the local lookups only, no two stored
\* documents hold the same value of a unique key, also when calls
\* interleave between the lookup and the forwarded write.
C19_NoDuplicateUniqueValue ==
  \A d1, d2 \in store :
    \A i \in 1..Len(ConcKeys) :
      (d1 # d2 /\ Has(d1, ConcKeys[i]) /\ Has(d2, ConcKeys[i]))
        => d1[ConcKeys[i]] # d2[ConcKeys[i]]

====
